---- MODULE Spec2Model ----
(***************************************************************************)
(* Model of the EVM multi-transfer tool (src/multiTransfer/evm/index.js):  *)
(* token metadata, planning (previewTransfers), the confirmation prompt,   *)
(* execution (executeTransfers) and withRetry.                             *)
(*                                                                         *)
(* Numbers.  JavaScript floats are modelled as exact fixed-point decimals  *)
(* with FineDigits decimal places: every amount and balance is an integer  *)
(* count of 10^-FineDigits token.  Binary floating-point drift is not      *)
(* modelled.  The percentage is a count of 10^-PercentDigits.              *)
(*                                                                         *)
(* Text.  A string is a sequence of one-character strings; an input line   *)
(* is a sequence of tokens: "K" a well-formed private key, "A" an address, *)
(* " " white space, ":" the delimiter.                                     *)
(***************************************************************************)
EXTENDS Integers, Sequences, FiniteSets, TLC

(* ---------------------------------------------------------------- bounds *)
\* at most this many lines in the address file
MaxLines == 2
\* Math.random() is drawn from {0/RandDen, ..., (RandDen-1)/RandDen}
RandDen == 2
\* withRetry checked on its own: maxRetries ranges over 0..MaxRetriesBound
MaxRetriesBound == 3
\* in randomDelay, Math.random() is drawn from {0/DelayDen, ..., (DelayDen-1)/DelayDen}
DelayDen == 3

(* ------------------------------------------------------ program constants *)
\* toReadable: toFixed(6)
ReadableDigits == 6
\* withRetry(fn, maxRetries = 3, delay = 1000)
DefaultMaxRetries == 3
DefaultDelay == 1000
\* 'TRANSFER_RANDOM_DECIMALS' || '6'
DefaultRandomDecimals == 6
\* balance-query script: parseInt(envConfig.RETRY_DELAY_MS || '500')
DefaultRetryDelayMs == 500

(* ------------------------------------------------------------ arithmetic *)
RECURSIVE Pow(_, _)
Pow(b, n) == IF n = 0 THEN 1 ELSE b * Pow(b, n - 1)

Pow10(n) == Pow(10, n)

FineDigits == ReadableDigits + 2
PercentDigits == FineDigits - ReadableDigits
\* one token, in fine units
One == Pow10(FineDigits)
\* 10^-6 token, in fine units
Micro == Pow10(FineDigits - ReadableDigits)

\* mutant: no clamp at zero
MaxUnclamped(a, b) == a

\* Math.max
Max(a, b) == IF a >= b THEN a ELSE b

(* ------------------------------------------------------------------ text *)
\* the value of a destructured field that the line does not have
Undefined == <<"undefined">>

WhiteSpace == {" ", "\t"}

\* String.prototype.toLowerCase, one character
LowerChar(c) ==
  CASE c = "Y" -> "y"
    [] c = "E" -> "e"
    [] c = "S" -> "s"
    [] c = "N" -> "n"
    [] c = "O" -> "o"
    [] OTHER -> c

\* String.prototype.toLowerCase
toLowerCase(s) == [n \in 1..Len(s) |-> LowerChar(s[n])]

RECURSIVE TrimLeft(_)
TrimLeft(s) ==
  IF s # <<>> /\ Head(s) \in WhiteSpace THEN TrimLeft(Tail(s)) ELSE s

RECURSIVE TrimRight(_)
TrimRight(s) ==
  IF s # <<>> /\ s[Len(s)] \in WhiteSpace
  THEN TrimRight(SubSeq(s, 1, Len(s) - 1))
  ELSE s

\* String.prototype.trim
trim(s) == TrimRight(TrimLeft(s))

\* String.prototype.split(':'): the fields between the delimiters
RECURSIVE SplitFrom(_, _, _)
SplitFrom(s, cur, acc) ==
  IF s = <<>> THEN Append(acc, cur)
  ELSE IF Head(s) = ":" THEN SplitFrom(Tail(s), <<>>, Append(acc, cur))
  ELSE SplitFrom(Tail(s), Append(cur, Head(s)), acc)

split(s) == SplitFrom(s, <<>>, <<>>)

\* const [privateKey, to] = lines[i].split(':')
Destructure(line) ==
  LET parts == split(line)
  IN [privateKey |-> parts[1],
      to |-> IF Len(parts) >= 2 THEN parts[2] ELSE Undefined]

\* new ethers.Wallet(key) accepts exactly a well-formed key; anything else
\* (empty, padded with white space, not hexadecimal) throws
WalletOk(key) == key = <<"K">>

\* the destination of a transaction resolves to an address: ethers rejects
\* the call, before anything is sent, when `to` is not an address
AddressOk(to) == to = <<"A">>

(* --------------------------------------------------------- configuration *)
\* the tokens explored, by the decimals their contract reports: one with six
\* decimals and one with eight
TokenDecimals(tokenAddress) ==
  IF tokenAddress = "token6" THEN ReadableDigits ELSE FineDigits

\* const config = {...}: parseFloat(envConfig.X || '0'), parseInt(DELAY_MIN || '1'),
\* parseInt(DELAY_MAX || '3'); decimals is filled in by getTokenMetadata
BaseConfig ==
  [tokenAddress |-> "token6", transferMode |-> "fixed",
   fixedAmount |-> 0, minAmount |-> 0, maxAmount |-> 0,
   percent |-> 0, remainAmount |-> 0, randomDecimals |-> DefaultRandomDecimals,
   delayMin |-> 1, delayMax |-> 3, decimals |-> 0]

\* the .env files explored
Configs ==
  { [BaseConfig EXCEPT !.transferMode = "fixed", !.fixedAmount = One],
    [BaseConfig EXCEPT !.transferMode = "range", !.minAmount = One, !.maxAmount = 2 * One],
    [BaseConfig EXCEPT !.transferMode = "all", !.tokenAddress = "token8"],
    [BaseConfig EXCEPT !.transferMode = "percent", !.percent = Pow10(PercentDigits) \div 2],
    [BaseConfig EXCEPT !.transferMode = "remain", !.remainAmount = 3 * One,
                       !.tokenAddress = "token8"],
    [BaseConfig EXCEPT !.transferMode = "remain", !.remainAmount = 5 * One] }

\* the .env files explored when planning is checked on its own: every mode,
\* an unknown mode included, with parameters in steps of one half around the
\* balances, and both tokens
PlanConfigs ==
  LET halves == { (n * One) \div 2 : n \in 0..4 }
      wholes == { 0, One \div 2, One, 3 * One, 5 * One, 6 * One }
      shares == { (n * Pow10(PercentDigits)) \div 2 : n \in 0..3 }
      modes ==
        { [BaseConfig EXCEPT !.transferMode = "fixed", !.fixedAmount = a] : a \in wholes }
        \cup UNION { UNION { { [BaseConfig EXCEPT !.transferMode = "range", !.minAmount = lo,
                                                  !.maxAmount = hi, !.randomDecimals = n]
                                : n \in {0, 1, DefaultRandomDecimals} }
                              : hi \in { h \in halves : lo <= h } }
                      : lo \in halves }
        \cup { [BaseConfig EXCEPT !.transferMode = "all"] }
        \cup { [BaseConfig EXCEPT !.transferMode = "percent", !.percent = p] : p \in shares }
        \cup { [BaseConfig EXCEPT !.transferMode = "remain", !.remainAmount = a] : a \in wholes }
        \cup { [BaseConfig EXCEPT !.transferMode = "undefined"] }
  IN UNION { { [c EXCEPT !.tokenAddress = t, !.decimals = TokenDecimals(t)] : c \in modes }
             : t \in {"token6", "token8"} }

(* --------------------------------------------------------------- amounts *)
\* function randomAmount(min, max, decimals), with Math.random() = rnd / RandDen;
\* the result (after parseFloat) in fine units
randomAmount(min, max, decimals, rnd) ==
  LET q == Pow10(FineDigits - decimals)
      randInt == (rnd * (max - min) + RandDen * min) \div (RandDen * q)
  IN randInt * q

\* function toReadable(balance, decimals): the balance in base units, formatted
\* and rounded to 6 places (toFixed rounds to nearest); the result counts 10^-6 token
toReadable(balanceRaw, decimals) ==
  LET fine == balanceRaw * Pow10(FineDigits - decimals)
  IN (fine + Micro \div 2) \div Micro

\* Number.prototype.toFixed(6), counting 10^-6 token
toFixed6(a) == (a + Micro \div 2) \div Micro

\* the digits after the decimal point that a.toString() prints
RECURSIVE FracDigitsFrom(_, _)
FracDigitsFrom(a, n) ==
  IF n = 0 \/ a % 10 # 0 THEN n ELSE FracDigitsFrom(a \div 10, n - 1)

FracDigits(a) == FracDigitsFrom(a, FineDigits)

\* function formatAmount(amount, decimals) = parseUnits(amount.toString(), decimals):
\* a number below 1e-6 prints in exponent notation, which parseUnits rejects, and
\* so is a fraction longer than the token's decimals
formatAmountThrows(amount, decimals) ==
  \/ (amount > 0 /\ amount < Micro)
  \/ FracDigits(amount) > decimals

\* switch (config.transferMode): the amount for readable balance b (fine units)
computeAmount(cfg, b, rnd) ==
  CASE cfg.transferMode = "fixed" -> cfg.fixedAmount
    [] cfg.transferMode = "range" ->
         randomAmount(cfg.minAmount, cfg.maxAmount, cfg.randomDecimals, rnd)
    [] cfg.transferMode = "all" -> b
    [] cfg.transferMode = "percent" -> (b \div Micro) * cfg.percent
    [] cfg.transferMode = "remain" -> Max(b - cfg.remainAmount, 0)
    [] OTHER -> 0

(* ---------------------------------------------------------- environment *)
\* the lines an address file may hold in a whole run: a well-formed line, a
\* line without delimiter, a line without key, and a blank line
LineKinds ==
  { <<"K", ":", "A">>, <<"K">>, <<":", "A">>, <<" ">> }

\* the non-blank lines explored when planning is checked on its own: those of
\* LineKinds and a line whose destination is empty
PlanLineKinds ==
  { l \in LineKinds \cup { <<"K", ":">> } : trim(l) # <<>> }

\* the destinations explored when execution is checked on its own: an address
\* and the empty string
ExecDestinations == { <<"A">>, <<>> }

RawFiles == UNION { [1..n -> LineKinds] : n \in 0..MaxLines }

\* balances (base units) an address may hold, for a token of the given decimals
Balances(decimals) ==
  LET u == Pow10(decimals)
  IN { 0, u \div 2, 5 * u, u + (17 * Pow10(decimals - ReadableDigits)) \div 10 }

\* what a rejected RPC call carries: error.code and whether error.message
\* includes 'no response'.  "-32603" stands for the number -32603.
AllErrors ==
  { [code |-> "SERVER_ERROR", noResponse |-> FALSE],
    [code |-> "-32603", noResponse |-> FALSE],
    [code |-> "TIMEOUT", noResponse |-> TRUE],
    [code |-> "INSUFFICIENT_FUNDS", noResponse |-> FALSE] }

\* the errors explored in a whole run: a transient one and a permanent one
RunErrors ==
  { [code |-> "SERVER_ERROR", noResponse |-> FALSE],
    [code |-> "INSUFFICIENT_FUNDS", noResponse |-> FALSE] }

\* what the call rejects with when the destination is not an address
ResolveErrors == { [code |-> "INVALID_ARGUMENT", noResponse |-> FALSE] }

NoError == [code |-> "", noResponse |-> FALSE]

\* the outcome of one invocation of the operation given to withRetry
Resolved(h) == [ok |-> TRUE, hash |-> h, code |-> "", noResponse |-> FALSE]
Rejected(e) == [ok |-> FALSE, hash |-> 0, code |-> e.code, noResponse |-> e.noResponse]
NoOutcome == [ok |-> FALSE, hash |-> 0, code |-> "", noResponse |-> FALSE]

\* what the operator may type at the prompt
Answers ==
  { <<"y", "e", "s">>, <<" ", "Y", "E", "S", " ">>,
    <<"y">>, <<"n", "o">>, <<>>, <<"y", "e", "s", "s">> }

(* ----------------------------------------------------------------- state *)
VARIABLES
  pc,            \* where the run is
  config,        \* the configuration object, with the token metadata
  lines, i,      \* previewTransfers: the non-blank lines and the loop index
  cur,           \* previewTransfers: [privateKey, to] of the line being queried
  result,        \* previewTransfers: the plan (transferList in main)
  skipped,       \* previewTransfers: the skip lines
  previewLines,  \* previewTransfers: the preview lines
  queryFailed,   \* console.error of a failed balance query: the line number
                 \* and the number of times the query was sent
  queryError,    \* the error caught from the last balance query, if it failed
  queryCalls,    \* how many times the balance query of the current line was sent
  classified,    \* per line whose balance was read: line number, b and amount
  previewFile, skipFile, successLog, failLog,   \* the files on disk
  prompted, answer,                             \* the confirmation prompt
  exitCode,
  k,             \* executeTransfers: index of the plan entry being sent
  txSubmitted,   \* some transaction has been handed to the provider
  delay,         \* the randomDelay being awaited, in seconds
  rPc, rMax, rDelay, rAttempt,   \* withRetry: position, parameters, attempt
  rResult,                       \* withRetry: what it returned or threw
  rTrace,        \* withRetry: the outcome of each invocation of fn, in order
  rWaits         \* withRetry: the backoff waits, in order

planVars ==
  <<lines, i, cur, result, skipped, previewLines, queryFailed, queryError, queryCalls,
    classified>>
fileVars == <<previewFile, skipFile, successLog, failLog>>
mainVars == <<pc, config, prompted, answer, exitCode, k, txSubmitted, delay>>
retryVars == <<rPc, rMax, rDelay, rAttempt, rResult, rTrace, rWaits>>
vars == <<planVars, fileVars, mainVars, retryVars>>

\* a file that has not been written, and a written file with its lines
NoFile == [exists |-> FALSE, lines |-> <<>>]
File(ls) == [exists |-> TRUE, lines |-> ls]
NoEntry == [privateKey |-> <<>>, to |-> <<>>]

InitRest ==
  /\ lines = <<>> /\ i = 0 /\ cur = NoEntry
  /\ result = <<>> /\ skipped = <<>> /\ previewLines = <<>>
  /\ queryFailed = <<>> /\ queryError = NoError /\ queryCalls = 0 /\ classified = <<>>
  /\ previewFile = NoFile /\ skipFile = NoFile
  /\ successLog = <<>> /\ failLog = <<>>
  /\ prompted = FALSE /\ answer = <<>> /\ exitCode = -1
  /\ k = 0 /\ txSubmitted = FALSE /\ delay = 0
  /\ rAttempt = 0 /\ rResult = NoOutcome
  /\ rTrace = <<>> /\ rWaits = <<>>

Init ==
  /\ pc = "Setup"
  /\ config \in Configs
  /\ rPc = "idle" /\ rMax = DefaultMaxRetries /\ rDelay = DefaultDelay
  /\ InitRest

(* ------------------------------------------------------------- withRetry *)
\* mutant: every error is retried
retriableAny(error) == TRUE

\* const retriable = error?.code === 'SERVER_ERROR' || error?.code === -32603
\*                   || error?.message?.includes('no response')
retriable(error) ==
  error.code = "SERVER_ERROR" \/ error.code = "-32603" \/ error.noResponse

\* mutants: one attempt too many, one too few
isFinalAttemptLate(attempt, maxRetries) == attempt > maxRetries + 1
isFinalAttemptEarly(attempt, maxRetries) == attempt >= maxRetries

\* const isFinalAttempt = attempt > maxRetries
isFinalAttempt(attempt, maxRetries) == attempt > maxRetries

\* mutant: the exponent counts the retries, not the failures: first wait = delay
backoffFromDelay(d, attempt) == d * Pow(2, attempt - 1)

\* const backoff = delay * Math.pow(2, attempt)
backoff(d, attempt) == d * Pow(2, attempt)

\* while (attempt <= maxRetries)
RetryLoopGuard == rAttempt <= rMax

\* the operation is the transfer of plan entry k + 1 and ethers can send it
Sendable == pc = "Submitting" /\ AddressOk(result[k + 1].to)

\* the errors the operation can reject with
Errors ==
  IF pc = "RetryOnly" THEN AllErrors
  ELSE IF pc = "Submitting" /\ ~Sendable THEN ResolveErrors
  ELSE RunErrors

\* the values the operation can resolve to: in a run, the transaction of plan
\* entry k + 1, whose hash is its own
Hashes ==
  IF pc = "Submitting" THEN (IF Sendable THEN {k + 1} ELSE {}) ELSE {1, 2}

\* return await fn(), resolved
RetryInvokeResolves ==
  /\ rPc = "invoke" /\ RetryLoopGuard
  /\ \E h \in Hashes :
       /\ rResult' = Resolved(h)
       /\ rTrace' = Append(rTrace, Resolved(h))
  /\ rPc' = "returned"
  /\ txSubmitted' = (txSubmitted \/ Sendable)
  /\ UNCHANGED <<rMax, rDelay, rAttempt, rWaits>>
  /\ UNCHANGED <<planVars, fileVars, pc, config, prompted, answer, exitCode, k, delay>>

\* await fn() rejected: the catch block
RetryInvokeRejects ==
  /\ rPc = "invoke" /\ RetryLoopGuard
  /\ \E e \in Errors :
       /\ rTrace' = Append(rTrace, Rejected(e))
       /\ rAttempt' = rAttempt + 1
       /\ IF ~retriable(e) \/ isFinalAttempt(rAttempt + 1, rMax)
          THEN /\ rPc' = "thrown"
               /\ rResult' = Rejected(e)
               /\ rWaits' = rWaits
          ELSE /\ rPc' = "wait"
               /\ rResult' = rResult
               /\ rWaits' = Append(rWaits, backoff(rDelay, rAttempt + 1))
  /\ txSubmitted' = (txSubmitted \/ Sendable)
  /\ UNCHANGED <<rMax, rDelay>>
  /\ UNCHANGED <<planVars, fileVars, pc, config, prompted, answer, exitCode, k, delay>>

\* await new Promise(res => setTimeout(res, backoff)) is over
RetryBackoffElapsed ==
  /\ rPc = "wait"
  /\ rPc' = "invoke"
  /\ UNCHANGED <<rMax, rDelay, rAttempt, rResult, rTrace, rWaits>>
  /\ UNCHANGED <<planVars, fileVars, mainVars>>

\* withRetry(fn): let attempt = 0
RetryBegin(maxRetries, d) ==
  /\ rPc' = "invoke" /\ rMax' = maxRetries /\ rDelay' = d
  /\ rAttempt' = 0 /\ rResult' = NoOutcome
  /\ rTrace' = <<>> /\ rWaits' = <<>>

\* withRetry has returned or thrown and its caller has taken the result: the
\* locals are gone
RetryEnd ==
  /\ rPc' = "idle" /\ rMax' = DefaultMaxRetries /\ rDelay' = DefaultDelay
  /\ rAttempt' = 0 /\ rResult' = NoOutcome
  /\ rTrace' = <<>> /\ rWaits' = <<>>

(* ------------------------------------------------------------------ main *)
\* an exception nobody catches: the promise of the async function rejects and
\* the process dies with a nonzero status
Crash ==
  /\ pc' = "Crashed"
  /\ exitCode' = 1

\* await getTokenMetadata(provider, config.tokenAddress)
GetTokenMetadata ==
  /\ pc = "Setup"
  /\ config' = [config EXCEPT !.decimals = TokenDecimals(config.tokenAddress)]
  /\ pc' = "ReadFile"
  /\ UNCHANGED <<planVars, fileVars, retryVars>>
  /\ UNCHANGED <<prompted, answer, exitCode, k, txSubmitted, delay>>

\* getTokenMetadata rejects (the token contract cannot be read)
GetTokenMetadataFails ==
  /\ pc = "Setup"
  /\ Crash
  /\ UNCHANGED <<planVars, fileVars, retryVars>>
  /\ UNCHANGED <<config, prompted, answer, k, txSubmitted, delay>>

(* ------------------------------------------------------ previewTransfers *)
\* raw = fs.readFileSync(...); lines = raw.split(/\r?\n/).filter(l => l.trim())
ReadFile ==
  /\ pc = "ReadFile"
  /\ \E raw \in RawFiles :
       lines' = SelectSeq(raw, LAMBDA l : trim(l) # <<>>)
  /\ pc' = "Planning"
  /\ UNCHANGED <<i, cur, result, skipped, previewLines, queryFailed, queryError, queryCalls,
                  classified>>
  /\ UNCHANGED <<fileVars, retryVars>>
  /\ UNCHANGED <<config, prompted, answer, exitCode, k, txSubmitted, delay>>

\* readFileSync throws: console.log and process.exit(0)
ReadFileMissing ==
  /\ pc = "ReadFile"
  /\ pc' = "Done"
  /\ exitCode' = 0
  /\ UNCHANGED <<planVars, fileVars, retryVars>>
  /\ UNCHANGED <<config, prompted, answer, k, txSubmitted, delay>>

\* loop body up to the balance query: destructure the line, build the wallet
\* (new ethers.Wallet(privateKey.trim(), provider) throws on a bad key) and
\* send the balance query
PlanQuery ==
  /\ pc = "Planning" /\ i < Len(lines)
  /\ LET e == Destructure(lines[i + 1])
     IN IF WalletOk(trim(e.privateKey))
        THEN /\ cur' = e
             /\ pc' = "Querying"
             /\ queryCalls' = 1
             /\ exitCode' = exitCode
        ELSE /\ cur' = cur
             /\ queryCalls' = 0
             /\ Crash
  /\ queryError' = NoError
  /\ UNCHANGED <<lines, i, result, skipped, previewLines, queryFailed, classified>>
  /\ UNCHANGED <<fileVars, retryVars>>
  /\ UNCHANGED <<config, prompted, answer, k, txSubmitted, delay>>

\* mutant: a balance query that fails with a retriable error is sent again,
\* up to the retry bound
PlanQueryRejectedRetrying ==
  /\ pc = "Querying"
  /\ \E e \in Errors :
       /\ queryError' = e
       /\ IF retriable(e) /\ queryCalls <= DefaultMaxRetries
          THEN /\ queryCalls' = queryCalls + 1
               /\ UNCHANGED <<queryFailed, i, pc>>
          ELSE /\ queryFailed' = Append(queryFailed, [index |-> i + 1, calls |-> queryCalls])
               /\ i' = i + 1
               /\ pc' = "Planning"
               /\ queryCalls' = queryCalls
  /\ UNCHANGED <<lines, cur, result, skipped, previewLines, classified>>
  /\ UNCHANGED <<fileVars, retryVars>>
  /\ UNCHANGED <<config, prompted, answer, exitCode, k, txSubmitted, delay>>

\* mutant: a failed balance query is not caught and ends the run
PlanQueryRejectedAborts ==
  /\ pc = "Querying"
  /\ \E e \in Errors : queryError' = e
  /\ queryFailed' = Append(queryFailed, [index |-> i + 1, calls |-> queryCalls])
  /\ Crash
  /\ UNCHANGED <<lines, i, cur, result, skipped, previewLines, queryCalls, classified>>
  /\ UNCHANGED <<fileVars, retryVars>>
  /\ UNCHANGED <<config, prompted, answer, k, txSubmitted, delay>>

\* mutant: a failed balance query also leaves a skip line
PlanQueryRejectedSkips ==
  /\ pc = "Querying"
  /\ \E e \in Errors : queryError' = e
  /\ queryFailed' = Append(queryFailed, [index |-> i + 1, calls |-> queryCalls])
  /\ skipped' = Append(skipped, [index |-> i + 1, from |-> i + 1, balance |-> 0,
                                  to |-> trim(cur.to), amount |-> 0, reason |-> "query_failed"])
  /\ i' = i + 1
  /\ pc' = "Planning"
  /\ UNCHANGED <<lines, cur, result, previewLines, queryCalls, classified>>
  /\ UNCHANGED <<fileVars, retryVars>>
  /\ UNCHANGED <<config, prompted, answer, exitCode, k, txSubmitted, delay>>

\* the balance query rejects: catch (e) { console.error(...); continue; }
PlanQueryRejected ==
  /\ pc = "Querying"
  /\ \E e \in Errors : queryError' = e
  /\ queryFailed' = Append(queryFailed, [index |-> i + 1, calls |-> queryCalls])
  /\ i' = i + 1
  /\ pc' = "Planning"
  /\ UNCHANGED <<lines, cur, result, skipped, previewLines, queryCalls, classified>>
  /\ UNCHANGED <<fileVars, retryVars>>
  /\ UNCHANGED <<config, prompted, answer, exitCode, k, txSubmitted, delay>>

\* the line pushed to skipped
SkipLine(index, balance, to, amount, reason) ==
  [index |-> index, from |-> index, balance |-> balance, to |-> trim(to),
   amount |-> toFixed6(amount), reason |-> reason]

\* the line pushed to previewLines
PreviewLine(index, balance, to, amount) ==
  [index |-> index, from |-> index, balance |-> balance, to |-> trim(to),
   amount |-> toFixed6(amount)]

\* the entry pushed to result; the wallet address is identified with the
\* number of the line that holds its key
PlanEntry(index, privateKey, to, amount) ==
  [privateKey |-> privateKey, from |-> index, to |-> trim(to), amount |-> amount]

\* mutant: the amount check comes first, the zero-balance check only after it
IsZeroBalanceAfterAmount(b, amount) == b <= 0 /\ ~(amount <= 0 \/ amount > b)

\* if (b <= 0)
IsZeroBalance(b, amount) == b <= 0

\* mutant: an amount equal to the balance is refused
IsInsufficientStrict(b, amount) == amount <= 0 \/ amount >= b

\* if (amount <= 0 || amount > b)
IsInsufficient(b, amount) == amount <= 0 \/ amount > b

\* the rest of the loop body, once the balance is read.  Every branch calls
\* to.trim(), which throws when the line had no delimiter.
Classify(balanceRaw, rnd) ==
  LET balance == toReadable(balanceRaw, config.decimals)
      b == balance * Micro
      amount == computeAmount(config, b, rnd)
  IN IF cur.to = Undefined
     THEN /\ Crash
          /\ UNCHANGED <<i, result, skipped, previewLines, classified>>
     ELSE /\ pc' = "Planning"
          /\ exitCode' = exitCode
          /\ i' = i + 1
          /\ classified' = Append(classified,
               [index |-> i + 1, raw |-> balanceRaw, b |-> b, amount |-> amount])
          /\ IF IsZeroBalance(b, amount)
             THEN /\ skipped' = Append(skipped,
                       SkipLine(i + 1, balance, cur.to, amount, "zero_balance"))
                  /\ UNCHANGED <<result, previewLines>>
             ELSE IF IsInsufficient(b, amount)
             THEN /\ skipped' = Append(skipped,
                       SkipLine(i + 1, balance, cur.to, amount, "insufficient_balance"))
                  /\ UNCHANGED <<result, previewLines>>
             ELSE /\ previewLines' = Append(previewLines,
                       PreviewLine(i + 1, balance, cur.to, amount))
                  /\ result' = Append(result,
                       PlanEntry(i + 1, cur.privateKey, cur.to, amount))
                  /\ UNCHANGED skipped

\* the balance query resolves
PlanQueryResolved ==
  /\ pc = "Querying"
  /\ \E balanceRaw \in Balances(config.decimals) :
       \E rnd \in 0..(RandDen - 1) :
         Classify(balanceRaw, rnd)
  /\ UNCHANGED <<lines, cur, queryFailed, queryError, queryCalls>>
  /\ UNCHANGED <<fileVars, retryVars>>
  /\ UNCHANGED <<config, prompted, answer, k, txSubmitted, delay>>

\* the first line of the preview report
PreviewHeader == [index |-> 0, from |-> 0, balance |-> 0, to |-> <<>>, amount |-> 0]

\* mutant: the skipped entries are written to the preview too
WritePreviewWithSkips ==
  previewFile' = File(<<PreviewHeader>> \o previewLines \o skipped)

\* fs.writeFileSync(previewPath, previewLines.join('\n'))
WritePreview == previewFile' = File(<<PreviewHeader>> \o previewLines)

\* mutant: the exit on an empty plan forgets the skip report
EmptyPlanExitNoReport ==
  /\ skipFile' = skipFile
  /\ pc' = "Done"
  /\ exitCode' = 0
  /\ prompted' = prompted

\* if (transferList.length === 0) { writeFileSync(skippedPath, ...); process.exit(0) }
EmptyPlanExit ==
  /\ skipFile' = File(skipped)
  /\ pc' = "Done"
  /\ exitCode' = 0
  /\ prompted' = prompted

\* rl.question(...)
ShowPrompt ==
  /\ prompted' = TRUE
  /\ pc' = "AwaitingConfirmation"
  /\ UNCHANGED <<skipFile, exitCode>>

\* the loop is over: write the preview, return to main, which either exits
\* on an empty plan or asks for confirmation
PlanFinish ==
  /\ pc = "Planning" /\ i >= Len(lines)
  /\ WritePreview
  /\ IF Len(result) = 0 THEN EmptyPlanExit ELSE ShowPrompt
  /\ UNCHANGED <<planVars, successLog, failLog, retryVars>>
  /\ UNCHANGED <<config, answer, k, txSubmitted, delay>>

\* mutant: any answer that begins with a y
AffirmativeLoose(a) ==
  trim(a) # <<>> /\ toLowerCase(trim(a))[1] = "y"

\* answer.trim().toLowerCase() === 'yes'
Affirmative(a) == toLowerCase(trim(a)) = <<"y", "e", "s">>

\* the callback of rl.question
Answer ==
  /\ pc = "AwaitingConfirmation"
  /\ \E a \in Answers :
       /\ answer' = a
       /\ IF Affirmative(a)
          THEN pc' = "Executing" /\ exitCode' = exitCode
          ELSE pc' = "Done" /\ exitCode' = 0
  /\ UNCHANGED <<planVars, fileVars, retryVars>>
  /\ UNCHANGED <<config, prompted, k, txSubmitted, delay>>

(* ------------------------------------------------------ executeTransfers *)
\* loop body up to the submission: new ethers.Wallet(privateKey, provider) and
\* formatAmount(amount, config.decimals) stand before the try block, so their
\* exceptions leave the function; otherwise withRetry is entered
ExecSubmit ==
  /\ pc = "Executing" /\ k < Len(result)
  /\ LET t == result[k + 1]
     IN IF WalletOk(t.privateKey) /\ ~formatAmountThrows(t.amount, config.decimals)
        THEN /\ pc' = "Submitting"
             /\ exitCode' = exitCode
             /\ RetryBegin(DefaultMaxRetries, DefaultDelay)
        ELSE /\ Crash
             /\ UNCHANGED retryVars
  /\ UNCHANGED <<planVars, fileVars>>
  /\ UNCHANGED <<config, prompted, answer, k, txSubmitted, delay>>

\* fs.appendFileSync(successLog, ...)
LogSuccess(t, tx) ==
  /\ successLog' = Append(successLog,
       [from |-> t.from, to |-> t.to, amount |-> t.amount, hash |-> tx.hash])
  /\ failLog' = failLog

\* mutant: the failure is printed but not appended to the log
LogFailureLost(t, err) ==
  /\ failLog' = failLog
  /\ successLog' = successLog

\* catch (err) { fs.appendFileSync(failLog, ...) }
LogFailure(t, err) ==
  /\ failLog' = Append(failLog,
       [from |-> t.from, to |-> t.to, amount |-> t.amount,
        message |-> [code |-> err.code, noResponse |-> err.noResponse]])
  /\ successLog' = successLog

\* mutant: without the + 1 the upper bound is never drawn
randomDelayBelowMax(rnd) ==
  (rnd * (config.delayMax - config.delayMin)) \div DelayDen + config.delayMin

\* const delay = Math.floor(Math.random() * (delayMax - delayMin + 1) + delayMin)
randomDelay(rnd) ==
  (rnd * (config.delayMax - config.delayMin + 1)) \div DelayDen + config.delayMin

\* mutant: the delay is started but not awaited: the next transfer is
\* submitted while it runs
ExecRecordNoAwait ==
  /\ pc = "Submitting" /\ rPc \in {"returned", "thrown"}
  /\ IF rPc = "returned"
     THEN LogSuccess(result[k + 1], rResult)
     ELSE LogFailure(result[k + 1], rResult)
  /\ \E rnd \in 0..(DelayDen - 1) : delay' = randomDelay(rnd)
  /\ IF k + 1 < Len(result)
     THEN /\ k' = k + 1
          /\ pc' = "Submitting"
          /\ RetryBegin(DefaultMaxRetries, DefaultDelay)
     ELSE /\ k' = k
          /\ pc' = "Delaying"
          /\ RetryEnd
  /\ UNCHANGED <<planVars, previewFile, skipFile>>
  /\ UNCHANGED <<config, prompted, answer, exitCode, txSubmitted>>

\* withRetry is over: log the outcome and start the random delay
ExecRecord ==
  /\ pc = "Submitting" /\ rPc \in {"returned", "thrown"}
  /\ IF rPc = "returned"
     THEN LogSuccess(result[k + 1], rResult)
     ELSE LogFailure(result[k + 1], rResult)
  /\ \E rnd \in 0..(DelayDen - 1) : delay' = randomDelay(rnd)
  /\ pc' = "Delaying"
  /\ RetryEnd
  /\ UNCHANGED <<planVars, previewFile, skipFile>>
  /\ UNCHANGED <<config, prompted, answer, exitCode, k, txSubmitted>>

\* await randomDelay() is over: next plan entry
ExecDelayElapsed ==
  /\ pc = "Delaying"
  /\ k' = k + 1
  /\ delay' = 0
  /\ pc' = "Executing"
  /\ UNCHANGED <<planVars, fileVars, retryVars>>
  /\ UNCHANGED <<config, prompted, answer, exitCode, txSubmitted>>

\* the loop is over: console.log('所有任务执行完成') and the process ends
ExecFinish ==
  /\ pc = "Executing" /\ k >= Len(result)
  /\ pc' = "Done"
  /\ exitCode' = 0
  /\ UNCHANGED <<planVars, fileVars, retryVars>>
  /\ UNCHANGED <<config, prompted, answer, k, txSubmitted, delay>>

(* -------------------------------------------------------- specifications *)
Next ==
  \/ GetTokenMetadata
  \/ GetTokenMetadataFails
  \/ ReadFile
  \/ ReadFileMissing
  \/ PlanQuery
  \/ PlanQueryRejected
  \/ PlanQueryResolved
  \/ PlanFinish
  \/ Answer
  \/ ExecSubmit
  \/ RetryInvokeResolves
  \/ RetryInvokeRejects
  \/ RetryBackoffElapsed
  \/ ExecRecord
  \/ ExecDelayElapsed
  \/ ExecFinish

Spec == Init /\ [][Next]_vars

\* withRetry on its own, for every maxRetries up to the bound
InitRetry ==
  /\ pc = "RetryOnly"
  /\ config = BaseConfig
  /\ rPc = "invoke"
  /\ rMax \in 0..MaxRetriesBound
  /\ rDelay \in {DefaultDelay \div 2, DefaultDelay}
  /\ InitRest

NextRetry ==
  \/ RetryInvokeResolves
  \/ RetryInvokeRejects
  \/ RetryBackoffElapsed

SpecRetry == InitRetry /\ [][NextRetry]_vars

\* previewTransfers on its own, for every configuration of PlanConfigs, on a
\* file of one non-blank line, the token metadata already read
InitPlan ==
  /\ pc = "Planning"
  /\ config \in PlanConfigs
  /\ lines \in { <<l>> : l \in PlanLineKinds }
  /\ i = 0 /\ cur = NoEntry
  /\ result = <<>> /\ skipped = <<>> /\ previewLines = <<>>
  /\ queryFailed = <<>> /\ queryError = NoError /\ queryCalls = 0 /\ classified = <<>>
  /\ previewFile = NoFile /\ skipFile = NoFile
  /\ successLog = <<>> /\ failLog = <<>>
  /\ prompted = FALSE /\ answer = <<>> /\ exitCode = -1
  /\ k = 0 /\ txSubmitted = FALSE /\ delay = 0
  /\ rPc = "idle" /\ rMax = DefaultMaxRetries /\ rDelay = DefaultDelay
  /\ rAttempt = 0 /\ rResult = NoOutcome
  /\ rTrace = <<>> /\ rWaits = <<>>

NextPlan ==
  \/ PlanQuery
  \/ PlanQueryRejected
  \/ PlanQueryResolved
  \/ PlanFinish

SpecPlan == InitPlan /\ [][NextPlan]_vars

\* the .env files explored when execution is checked on its own: mode fixed
\* with amount 1 on the six-decimal token, and every DELAY_MIN <= DELAY_MAX
\* whose span the draws of randomDelay can cover
ExecConfigs ==
  UNION { { [BaseConfig EXCEPT !.transferMode = "fixed", !.fixedAmount = One,
                               !.decimals = TokenDecimals("token6"),
                               !.delayMin = lo, !.delayMax = hi]
            : hi \in lo..(lo + DelayDen - 1) }
          : lo \in 0..2 }

\* executeTransfers on its own: the operator has confirmed a plan of two
\* entries, each holding 5 tokens, for every destination of ExecDestinations
InitExec ==
  LET raw == 5 * Pow10(TokenDecimals("token6"))
      balance == toReadable(raw, TokenDecimals("token6"))
  IN /\ pc = "Executing"
     /\ config \in ExecConfigs
     /\ lines \in [1..2 -> { <<"K", ":">> \o to : to \in ExecDestinations }]
     /\ i = 2 /\ cur = Destructure(lines[2])
     /\ result = [n \in 1..2 |->
                    PlanEntry(n, Destructure(lines[n]).privateKey, Destructure(lines[n]).to, One)]
     /\ skipped = <<>>
     /\ previewLines = [n \in 1..2 |->
                          PreviewLine(n, balance, Destructure(lines[n]).to, One)]
     /\ queryFailed = <<>> /\ queryError = NoError /\ queryCalls = 1
     /\ classified = [n \in 1..2 |->
                        [index |-> n, raw |-> raw, b |-> balance * Micro, amount |-> One]]
     /\ previewFile = File(<<PreviewHeader>> \o previewLines) /\ skipFile = NoFile
     /\ successLog = <<>> /\ failLog = <<>>
     /\ prompted = TRUE /\ answer = <<"y", "e", "s">> /\ exitCode = -1
     /\ k = 0 /\ txSubmitted = FALSE /\ delay = 0
     /\ rPc = "idle" /\ rMax = DefaultMaxRetries /\ rDelay = DefaultDelay
     /\ rAttempt = 0 /\ rResult = NoOutcome
     /\ rTrace = <<>> /\ rWaits = <<>>

NextExec ==
  \/ ExecSubmit
  \/ RetryInvokeResolves
  \/ RetryInvokeRejects
  \/ RetryBackoffElapsed
  \/ ExecRecord
  \/ ExecDelayElapsed
  \/ ExecFinish

SpecExec == InitExec /\ [][NextExec]_vars

(* ------------------------------------------------- balance-query script *)
(* The standalone script that queries the balance of every address of a    *)
(* list.  It shares the state variables: lines is addressList, i the index *)
(* of its for loop, successLog and failLog its two log files, rMax and     *)
(* rDelay the parameters retries and delayMs of its own withRetry,         *)
(* rAttempt the loop index of that withRetry and rResult its lastError or  *)
(* return value.  An address is identified with its position in the list.  *)

\* the balances a query can resolve to
QueryBalances == {0, 5}

\* the first line of the success log
QueryHeader == [address |-> 0, balance |-> 0]

\* if (addressList.length == 0) { console.log(...); return; }
QueryListEmpty ==
  /\ pc = "QueryStart" /\ Len(lines) = 0
  /\ pc' = "Done"
  /\ exitCode' = 0
  /\ UNCHANGED <<planVars, fileVars, retryVars>>
  /\ UNCHANGED <<config, prompted, answer, k, txSubmitted, delay>>

\* fs.appendFileSync(success log, header); let failNum = 0
QueryWriteHeader ==
  /\ pc = "QueryStart" /\ Len(lines) # 0
  /\ successLog' = <<QueryHeader>>
  /\ pc' = "QueryLoop"
  /\ UNCHANGED <<planVars, previewFile, skipFile, failLog, retryVars>>
  /\ UNCHANGED <<config, prompted, answer, exitCode, k, txSubmitted, delay>>

\* for (let i = 0; i < addressList.length; i++) { try { await withRetry(...):
\* withRetry starts with lastError undefined and its loop index 0
QueryAddress ==
  /\ pc = "QueryLoop" /\ i < Len(lines)
  /\ pc' = "QueryRetrying"
  /\ rPc' = "invoke" /\ rAttempt' = 0 /\ rResult' = NoOutcome
  /\ rTrace' = <<>> /\ rWaits' = <<>>
  /\ UNCHANGED <<rMax, rDelay>>
  /\ UNCHANGED <<planVars, fileVars>>
  /\ UNCHANGED <<config, prompted, answer, exitCode, k, txSubmitted, delay>>

\* for (let i = 0; i < retries; i++)
QueryRetryLoopGuard == rAttempt < rMax

\* return await fn(), resolved
QueryInvokeResolves ==
  /\ pc = "QueryRetrying" /\ rPc = "invoke" /\ QueryRetryLoopGuard
  /\ \E b \in QueryBalances :
       /\ rResult' = Resolved(b)
       /\ rTrace' = Append(rTrace, Resolved(b))
  /\ rPc' = "returned"
  /\ UNCHANGED <<rMax, rDelay, rAttempt, rWaits>>
  /\ UNCHANGED <<planVars, fileVars, mainVars>>

\* await fn() rejected: lastError = err; if (i < retries - 1) await delay(delayMs);
\* without the delay the loop index advances at once
QueryInvokeRejects ==
  /\ pc = "QueryRetrying" /\ rPc = "invoke" /\ QueryRetryLoopGuard
  /\ \E e \in Errors :
       /\ rResult' = Rejected(e)
       /\ rTrace' = Append(rTrace, Rejected(e))
  /\ IF rAttempt < rMax - 1
     THEN /\ rPc' = "wait"
          /\ rWaits' = Append(rWaits, rDelay)
          /\ rAttempt' = rAttempt
     ELSE /\ rPc' = "invoke"
          /\ rWaits' = rWaits
          /\ rAttempt' = rAttempt + 1
  /\ UNCHANGED <<rMax, rDelay>>
  /\ UNCHANGED <<planVars, fileVars, mainVars>>

\* await delay(delayMs) is over: i++
QueryDelayElapsed ==
  /\ pc = "QueryRetrying" /\ rPc = "wait"
  /\ rPc' = "invoke"
  /\ rAttempt' = rAttempt + 1
  /\ UNCHANGED <<rMax, rDelay, rResult, rTrace, rWaits>>
  /\ UNCHANGED <<planVars, fileVars, mainVars>>

\* the loop of withRetry is over: throw lastError (undefined when the loop body
\* never ran)
QueryRetryExhausted ==
  /\ pc = "QueryRetrying" /\ rPc = "invoke" /\ ~QueryRetryLoopGuard
  /\ rPc' = "thrown"
  /\ UNCHANGED <<rMax, rDelay, rAttempt, rResult, rTrace, rWaits>>
  /\ UNCHANGED <<planVars, fileVars, mainVars>>

\* `${error.message}` in the catch block: reading a property of undefined
\* throws a TypeError
QueryErrorMessageThrows(error) == error = NoOutcome

\* withRetry returned: formatUnits and the line of the success log; withRetry
\* threw: the catch block, whose console.error comes before the line of the
\* failure log and is itself outside any try
QueryRecord ==
  /\ pc = "QueryRetrying" /\ rPc \in {"returned", "thrown"}
  /\ IF rPc = "returned"
     THEN /\ successLog' = Append(successLog, [address |-> i + 1, balance |-> rResult.hash])
          /\ failLog' = failLog
          /\ i' = i + 1
          /\ pc' = "QueryLoop"
          /\ exitCode' = exitCode
     ELSE IF QueryErrorMessageThrows(rResult)
     THEN /\ Crash
          /\ UNCHANGED <<successLog, failLog, i>>
     ELSE /\ failLog' = Append(failLog, [address |-> i + 1])
          /\ successLog' = successLog
          /\ i' = i + 1
          /\ pc' = "QueryLoop"
          /\ exitCode' = exitCode
  /\ rPc' = "idle" /\ rAttempt' = 0 /\ rResult' = NoOutcome
  /\ rTrace' = <<>> /\ rWaits' = <<>>
  /\ UNCHANGED <<rMax, rDelay>>
  /\ UNCHANGED <<lines, cur, result, skipped, previewLines, queryFailed, queryError,
                  queryCalls, classified>>
  /\ UNCHANGED <<previewFile, skipFile>>
  /\ UNCHANGED <<config, prompted, answer, k, txSubmitted, delay>>

\* the loop is over: console.log('查询完成') and the process ends
QueryFinish ==
  /\ pc = "QueryLoop" /\ i >= Len(lines)
  /\ pc' = "Done"
  /\ exitCode' = 0
  /\ UNCHANGED <<planVars, fileVars, retryVars>>
  /\ UNCHANGED <<config, prompted, answer, k, txSubmitted, delay>>

\* the script once the token metadata and the address file are read: every
\* MAX_RETRIES up to the bound and every list of up to MaxLines addresses
InitQuery ==
  /\ pc = "QueryStart"
  /\ config = BaseConfig
  /\ lines \in UNION { [1..n -> { <<"A">> }] : n \in 0..MaxLines }
  /\ i = 0 /\ cur = NoEntry
  /\ result = <<>> /\ skipped = <<>> /\ previewLines = <<>>
  /\ queryFailed = <<>> /\ queryError = NoError /\ queryCalls = 0 /\ classified = <<>>
  /\ previewFile = NoFile /\ skipFile = NoFile
  /\ successLog = <<>> /\ failLog = <<>>
  /\ prompted = FALSE /\ answer = <<>> /\ exitCode = -1
  /\ k = 0 /\ txSubmitted = FALSE /\ delay = 0
  /\ rPc = "idle" /\ rMax \in 0..MaxRetriesBound /\ rDelay = DefaultRetryDelayMs
  /\ rAttempt = 0 /\ rResult = NoOutcome
  /\ rTrace = <<>> /\ rWaits = <<>>

NextQuery ==
  \/ QueryListEmpty
  \/ QueryWriteHeader
  \/ QueryAddress
  \/ QueryInvokeResolves
  \/ QueryInvokeRejects
  \/ QueryDelayElapsed
  \/ QueryRetryExhausted
  \/ QueryRecord
  \/ QueryFinish

SpecQuery == InitQuery /\ [][NextQuery]_vars

(* ---------------------------------------------------------------- claims *)
\* the number of lines of a log that belong to the wallet of a plan entry
LinesOf(log, from) == Cardinality({ j \in 1..Len(log) : log[j].from = from })

\* the entry of a line is in the plan
InPlan(index) == \E n \in 1..Len(result) : result[n].from = index

\* planning has run over the whole input and returned
PlanningFinished == previewFile.exists /\ i = Len(lines)

\* the run has ended, one way or the other
Ended == pc \in {"Done", "Crashed"}

\* C1 (as claimed): once the operator has confirmed, the run ends with exactly
\* one outcome line per entry of the plan, whatever errors the entries raised.
C1_EveryEntryGetsOneOutcome ==
  (Ended /\ prompted /\ Affirmative(answer)) =>
    \A n \in 1..Len(result) :
      LinesOf(successLog, result[n].from) + LinesOf(failLog, result[n].from) = 1

\* "yes" in any letter case, nothing else
YesAnyCase(a) ==
  /\ Len(a) = 3
  /\ a[1] \in {"y", "Y"} /\ a[2] \in {"e", "E"} /\ a[3] \in {"s", "S"}

\* "yes" in any letter case, with white space allowed before and after
YesAnyCasePadded(a) ==
  \E m \in 1..Len(a) :
    /\ m + 2 <= Len(a)
    /\ YesAnyCase(SubSeq(a, m, m + 2))
    /\ \A j \in 1..Len(a) : (j < m \/ j > m + 2) => a[j] \in WhiteSpace

\* C2 (as claimed): a transaction is submitted only after planning finished
\* with a non-empty plan and the operator answered exactly "yes", in any letter
\* case; after any other answer the run is Done with nothing submitted or logged.
C2_NoTxWithoutExactYes ==
  /\ txSubmitted => (PlanningFinished /\ Len(result) > 0 /\ prompted /\ YesAnyCase(answer))
  /\ (prompted /\ pc # "AwaitingConfirmation" /\ ~YesAnyCase(answer)) =>
       (pc = "Done" /\ ~txSubmitted /\ successLog = <<>> /\ failLog = <<>>)

\* C2 (amended): a transaction is submitted only after planning finished with a
\* non-empty plan and the operator's answer, stripped of surrounding white
\* space, is "yes" in any letter case; after any other answer the run is Done
\* with nothing submitted or logged.
C2_NoTxWithoutTrimmedYes ==
  /\ txSubmitted =>
       (PlanningFinished /\ Len(result) > 0 /\ prompted /\ YesAnyCasePadded(answer))
  /\ (prompted /\ pc # "AwaitingConfirmation" /\ ~YesAnyCasePadded(answer)) =>
       (pc = "Done" /\ ~txSubmitted /\ successLog = <<>> /\ failLog = <<>>)

\* C2 witness: a transaction was submitted after an answer that is "yes" only
\* once trimmed and lower-cased
C2_Witness ==
  txSubmitted /\ pc = "Submitting" /\ answer = <<" ", "Y", "E", "S", " ">>

\* the errors the retry policy names: code SERVER_ERROR, code -32603, or a
\* message containing 'no response'
Transient(o) ==
  ~o.ok /\ (o.code = "SERVER_ERROR" \/ o.code = "-32603" \/ o.noResponse)

AllTransient(trace) == \A j \in 1..Len(trace) : Transient(trace[j])

\* C3: withRetry invokes the operation at most maxRetries + 1 times; when every
\* invocation fails with a retriable error it makes exactly maxRetries + 1
\* invocations and throws the error of the last one.
C3_AtMostMaxRetriesPlusOne ==
  /\ Len(rTrace) <= rMax + 1
  /\ (rPc = "thrown" /\ AllTransient(rTrace)) =>
       (Len(rTrace) = rMax + 1 /\ rResult = rTrace[Len(rTrace)])
  /\ (AllTransient(rTrace) /\ Len(rTrace) = rMax + 1) => rPc = "thrown"

\* C3 witness: the default three retries, four failed invocations, thrown
C3_Witness ==
  /\ rMax = DefaultMaxRetries /\ rPc = "thrown"
  /\ Len(rTrace) = 4 /\ AllTransient(rTrace)
  /\ rTrace[1] # rTrace[4]

\* C4: an invocation that fails with an error outside the retriable predicate
\* is the last one: withRetry throws that error, with no wait after it, however
\* many retries remain.
C4_NonRetriablePropagatesAtOnce ==
  \A j \in 1..Len(rTrace) :
    (~rTrace[j].ok /\ ~Transient(rTrace[j])) =>
      /\ j = Len(rTrace)
      /\ rPc = "thrown"
      /\ rResult = rTrace[j]
      /\ Len(rWaits) = j - 1

\* C4 witness: the first invocation fails non-retriably with retries left
C4_Witness ==
  /\ rMax = DefaultMaxRetries /\ rPc = "thrown"
  /\ Len(rTrace) = 1 /\ ~Transient(rTrace[1])

\* C5: after k <= maxRetries retriable failures withRetry has not given up, and
\* the first invocation that resolves is the last one, its value the result:
\* k failures then a success are k + 1 invocations.
C5_SuccessAfterRetries ==
  /\ (rPc # "idle" /\ AllTransient(rTrace) /\ Len(rTrace) <= rMax) =>
       rPc \in {"invoke", "wait"}
  /\ \A j \in 1..Len(rTrace) :
       rTrace[j].ok =>
         /\ j = Len(rTrace)
         /\ rPc = "returned"
         /\ rResult = rTrace[j]
         /\ AllTransient(SubSeq(rTrace, 1, j - 1))

\* C5 witness: two retriable failures, then success on the third invocation
C5_Witness ==
  /\ rPc = "returned" /\ Len(rTrace) = 3
  /\ Transient(rTrace[1]) /\ Transient(rTrace[2])
  /\ rResult.ok /\ rResult.hash = 2

\* C6 (as claimed): an entry is excluded as a query failure only when its
\* balance query failed non-retriably or was sent maxRetries + 1 times.
C6_ExcludedOnlyAfterRetries ==
  (queryError # NoError) =>
    \/ ~Transient(Rejected(queryError))
    \/ queryFailed[Len(queryFailed)].calls = DefaultMaxRetries + 1

\* C6 (amended): the balance query is sent once, outside withRetry: whatever
\* error it fails with, retriable or not, the entry is excluded at once, after
\* that single query, and is neither classified nor planned nor skipped.
C6_QueryFailureExcludesAtOnce ==
  /\ pc \in {"Planning", "Querying"} => rPc = "idle"
  /\ queryCalls <= 1
  /\ (queryError # NoError) =>
       /\ pc \in {"Planning", "Done", "AwaitingConfirmation", "Executing", "Submitting",
                  "Delaying", "Crashed"}
       /\ queryFailed # <<>>
       /\ queryFailed[Len(queryFailed)].index = i
  /\ \A n \in 1..Len(queryFailed) :
       /\ queryFailed[n].calls = 1
       /\ ~InPlan(queryFailed[n].index)
       /\ \A m \in 1..Len(skipped) : skipped[m].index # queryFailed[n].index
       /\ \A m \in 1..Len(classified) : classified[m].index # queryFailed[n].index

\* C6 witness: the first entry was excluded after one query that failed with a
\* retriable error, and the second entry has been classified
C6_Witness ==
  /\ Len(queryFailed) = 1 /\ queryFailed[1] = [index |-> 1, calls |-> 1]
  /\ Len(classified) = 1 /\ classified[1].index = 2
  /\ pc = "Planning" /\ i = 2

\* the entry of a line was accepted into the plan, with this amount
Accepted(index, amount) ==
  \E n \in 1..Len(result) : result[n].from = index /\ result[n].amount = amount

\* the entry of a line is in the skip list with this reason
SkippedAs(index, reason) ==
  \E n \in 1..Len(skipped) : skipped[n].index = index /\ skipped[n].reason = reason

\* C7: a well-formed entry whose balance was read as b, with computed amount a,
\* is in the plan iff b > 0 and 0 < a <= b; it is skipped as zero_balance iff
\* b <= 0 and as insufficient_balance iff b > 0 and (a <= 0 or a > b).
C7_AcceptedIffCovered ==
  \A j \in 1..Len(classified) :
    LET c == classified[j]
    IN /\ InPlan(c.index) <=> (c.b > 0 /\ 0 < c.amount /\ c.amount <= c.b)
       /\ InPlan(c.index) => Accepted(c.index, c.amount)
       /\ SkippedAs(c.index, "zero_balance") <=> (c.b <= 0)
       /\ SkippedAs(c.index, "insufficient_balance") <=>
            (c.b > 0 /\ (c.amount <= 0 \/ c.amount > c.b))

\* C7 witness: mode fixed 1.0, balances 0.5 and 5: the plan is the second
\* entry, the first is skipped as insufficient_balance
C7_Witness ==
  /\ config.transferMode = "fixed" /\ config.fixedAmount = One
  /\ PlanningFinished
  /\ Len(classified) = 2
  /\ classified[1].b = One \div 2 /\ classified[2].b = 5 * One
  /\ Len(result) = 1 /\ result[1].from = 2
  /\ Len(skipped) = 1 /\ skipped[1].reason = "insufficient_balance"

\* C8: when planning ends with an empty plan the run is Done with status 0, no
\* prompt shown and nothing submitted, and the skip report holds the skip
\* records, one per entry whose balance was read; the skip report exists in no
\* other case.
C8_EmptyPlanWritesSkipReport ==
  /\ (PlanningFinished /\ Len(result) = 0) =>
       /\ pc = "Done" /\ exitCode = 0
       /\ ~prompted /\ ~txSubmitted
       /\ skipFile = File(skipped)
       /\ Len(skipped) = Len(classified)
       /\ \A j \in 1..Len(classified) : skipped[j].index = classified[j].index
  /\ skipFile.exists => (PlanningFinished /\ Len(result) = 0)

\* C8 witness: two entries, both skipped, the report written
C8_Witness ==
  /\ skipFile.exists /\ Len(skipFile.lines) = 2
  /\ skipFile.lines[1].reason # skipFile.lines[2].reason
  /\ pc = "Done"

\* some file on disk holds a line for the entry of this input line
OnDisk(index) ==
  \/ \E n \in 1..Len(previewFile.lines) : previewFile.lines[n].index = index
  \/ \E n \in 1..Len(skipFile.lines) : skipFile.lines[n].index = index
  \/ LinesOf(successLog, index) > 0
  \/ LinesOf(failLog, index) > 0

\* the outcome lines the logs hold for plan entry n
Logged(n) == LinesOf(successLog, result[n].from) + LinesOf(failLog, result[n].from)

\* C9 (as claimed): every entry the run has moved past whose outcome is a skip,
\* a query exclusion or an execution outcome has a line in a file on disk.
C9_EveryOutcomeOnDisk ==
  /\ \A index \in 1..i :
       ( \/ \E n \in 1..Len(skipped) : skipped[n].index = index
         \/ \E n \in 1..Len(queryFailed) : queryFailed[n].index = index )
       => OnDisk(index)
  /\ \A n \in 1..k : Logged(n) = 1

\* C9 (amended): only execution outcomes are logged entry by entry: every plan
\* entry the run has moved past, or is delaying after, has exactly one line in
\* the success or failure log and no later entry has any.  No file is written
\* while planning; skips reach the disk only in the skip report of an empty
\* plan, and query exclusions reach no file.
C9_OnlyExecutionOutcomesLogged ==
  /\ \A n \in 1..Len(result) :
       Logged(n) = IF n <= k \/ (n = k + 1 /\ pc = "Delaying") THEN 1 ELSE 0
  /\ pc \in {"Planning", "Querying"} => (~previewFile.exists /\ ~skipFile.exists)
  /\ skipFile.exists => Len(result) = 0
  /\ \A n \in 1..Len(skipped) : OnDisk(skipped[n].index) => skipFile.exists
  /\ \A n \in 1..Len(queryFailed) : ~OnDisk(queryFailed[n].index)

\* C9 witness: one entry skipped, the other sent and failed; the failure is in
\* the log as the run moves on, the skip is on no file
C9_Witness ==
  /\ pc = "Executing" /\ k = 1
  /\ Len(failLog) = 1 /\ Len(skipped) = 1
  /\ ~OnDisk(skipped[1].index)

\* C10 (as claimed): the preview report holds exactly one line for every entry
\* whose balance was read, accepted or skipped.
C10_PreviewListsEveryReadEntry ==
  previewFile.exists =>
    \A j \in 1..Len(classified) :
      Cardinality({ n \in 1..Len(previewFile.lines) :
                      previewFile.lines[n].index = classified[j].index }) = 1

\* C10 (amended): the preview report holds the header line and then exactly one
\* line for every entry accepted into the plan, in plan order, with its
\* destination and amount; skipped entries are not in it.
C10_PreviewListsThePlan ==
  previewFile.exists =>
    /\ Len(previewFile.lines) = Len(result) + 1
    /\ previewFile.lines[1] = PreviewHeader
    /\ \A n \in 1..Len(result) :
         /\ previewFile.lines[n + 1].index = result[n].from
         /\ previewFile.lines[n + 1].to = result[n].to
         /\ \E j \in 1..Len(classified) :
              /\ classified[j].index = result[n].from
              /\ previewFile.lines[n + 1].amount * Micro <= classified[j].amount + Micro \div 2
              /\ previewFile.lines[n + 1].amount * Micro > classified[j].amount - Micro \div 2
    /\ \A n \in 1..Len(skipped) :
         \A m \in 1..Len(previewFile.lines) :
           previewFile.lines[m].index # skipped[n].index

\* C10 witness: the preview is written for a plan of one entry, the other
\* entry having been skipped
C10_Witness ==
  /\ previewFile.exists
  /\ Len(result) = 1 /\ Len(skipped) = 1

\* the line numbers a list of records names
Indices(list) == { list[n].index : n \in 1..Len(list) }

\* the planning loop throws on this line: the wallet cannot be built from its
\* key field, or it has no second field to trim
LineThrows(line) ==
  \/ ~WalletOk(trim(Destructure(line).privateKey))
  \/ Destructure(line).to = Undefined

\* C11: an entry whose balance query failed is in neither the plan nor the
\* skip list, and the failure does not abort planning: planning stops early
\* only at a line on which the loop itself throws, every line passed over has
\* either failed its query or been classified, and when planning returns that
\* is so for every line of the input.
C11_QueryFailureExcludesAndContinues ==
  /\ \A index \in Indices(queryFailed) :
       ~InPlan(index) /\ index \notin Indices(skipped)
  /\ Indices(queryFailed) \cap Indices(classified) = {}
  /\ Indices(queryFailed) \cup Indices(classified) = 1..i
  /\ (pc = "Crashed" /\ ~previewFile.exists /\ config.decimals # 0) =>
       (i < Len(lines) /\ LineThrows(lines[i + 1]))
  /\ (pc = "Planning" /\ i < Len(lines)) => ENABLED PlanQuery
  /\ previewFile.exists => i = Len(lines)

\* C11 witness: the query of the first entry failed, the second entry was
\* queried, classified and planned, and planning has returned
C11_Witness ==
  /\ PlanningFinished /\ Len(lines) = 2
  /\ Indices(queryFailed) = {1}
  /\ Len(result) = 1 /\ result[1].from = 2

\* a line that is not "key:destination" with both fields non-empty
Malformed(line) ==
  \/ Len(split(line)) < 2
  \/ trim(split(line)[1]) = <<>>
  \/ trim(split(line)[2]) = <<>>

\* planning was aborted by an exception
PlanningAborted == pc = "Crashed" /\ ~previewFile.exists /\ config.decimals # 0

\* C12 (as claimed): a malformed line never yields a plan entry, no plan entry
\* has an empty or undefined destination, and planning is never aborted.
C12_MalformedLineRejected ==
  /\ \A n \in 1..Len(result) :
       /\ ~Malformed(lines[result[n].from])
       /\ result[n].to # <<>> /\ result[n].to # Undefined
  /\ ~PlanningAborted

\* C13: in every mode and with every parameter, an entry whose balance reads
\* b = 0 is skipped with reason zero_balance, never with reason
\* insufficient_balance, and is not planned, whatever amount was computed.
C13_ZeroBalanceTakesPrecedence ==
  \A j \in 1..Len(classified) :
    classified[j].b = 0 =>
      /\ SkippedAs(classified[j].index, "zero_balance")
      /\ ~SkippedAs(classified[j].index, "insufficient_balance")
      /\ ~InPlan(classified[j].index)

\* C13 witness: mode fixed with amount 1: the balance reads 0, the amount 1
\* exceeds it, and the entry is skipped as zero_balance
C13_Witness ==
  /\ config.transferMode = "fixed" /\ config.fixedAmount = One
  /\ Len(classified) = 1 /\ classified[1].b = 0 /\ classified[1].amount > classified[1].b
  /\ Len(skipped) = 1 /\ skipped[1].reason = "zero_balance"

\* C14: the j-th wait of withRetry lasts delay * 2^j, j being the number of
\* invocations that have failed so far, so each wait is double the one before;
\* there is one wait after every failure that is retried and none after the
\* invocation that ends withRetry (a success or the final failure).
C14_BackoffDoubles ==
  /\ \A j \in 1..Len(rWaits) : rWaits[j] = rDelay * Pow(2, j)
  /\ \A j \in 2..Len(rWaits) : rWaits[j] = 2 * rWaits[j - 1]
  /\ rPc \in {"wait", "invoke"} =>
       /\ Len(rWaits) = Len(rTrace)
       /\ rAttempt = Len(rTrace)
       /\ AllTransient(rTrace)
  /\ rPc \in {"returned", "thrown"} => Len(rWaits) = Len(rTrace) - 1

\* C14 witness: delay 1000 and three retries, all four invocations failing:
\* the waits were 2000, 4000 and 8000 ms and none follows the last failure
C14_Witness ==
  /\ rDelay = DefaultDelay /\ rMax = DefaultMaxRetries
  /\ rPc = "thrown" /\ Len(rTrace) = 4
  /\ rWaits = <<2 * DefaultDelay, 4 * DefaultDelay, 8 * DefaultDelay>>

\* C15: every recorded outcome, success or failure, is followed by exactly one
\* delay before the next entry starts: the entries recorded are those the loop
\* has moved past plus the one being delayed after, and nothing is in flight
\* during a delay.  The delay is a whole number of seconds d with
\* delayMin <= d <= delayMax, and both delayMin and delayMax can be drawn.
C15_OneBoundedDelayPerAttempt ==
  /\ pc = "Delaying" =>
       /\ config.delayMin <= delay /\ delay <= config.delayMax
       /\ rPc = "idle"
       /\ Len(successLog) + Len(failLog) = k + 1
  /\ pc \in {"Executing", "Submitting"} =>
       /\ delay = 0
       /\ Len(successLog) + Len(failLog) = k
  /\ (pc = "Submitting" /\ rPc \in {"returned", "thrown"}) =>
       /\ ENABLED (ExecRecord /\ pc' = "Delaying" /\ delay' = config.delayMin)
       /\ ENABLED (ExecRecord /\ pc' = "Delaying" /\ delay' = config.delayMax)

\* C15 witness: DELAY_MIN < DELAY_MAX, the first entry succeeded and its delay
\* is over, the second failed and the delay after it is DELAY_MAX seconds
C15_Witness ==
  /\ config.delayMin < config.delayMax
  /\ pc = "Delaying" /\ k = 1 /\ delay = config.delayMax
  /\ Len(successLog) = 1 /\ Len(failLog) = 1

\* an RPC operation of an entry is outstanding: its balance query, or its
\* transaction inside withRetry
QueryOutstanding == pc = "Querying"
TxOutstanding == rPc \in {"invoke", "wait"}

\* C16: entries are processed one at a time.  A balance query and a
\* transaction are never outstanding together; the query outstanding is that
\* of line i + 1, sent once, every earlier line being settled; the transaction
\* outstanding is that of plan entry k + 1, and it is submitted only when every
\* earlier plan entry has its outcome recorded and no delay is running; no
\* later plan entry has an outcome.
C16_OneEntryAtATime ==
  /\ ~(QueryOutstanding /\ TxOutstanding)
  /\ QueryOutstanding =>
       /\ queryCalls = 1 /\ ~txSubmitted
       /\ Indices(queryFailed) \cup Indices(classified) = 1..i
  /\ TxOutstanding =>
       /\ pc \in {"Submitting", "RetryOnly"}
       /\ pc = "Submitting" =>
            /\ delay = 0
            /\ PlanningFinished
            /\ \A n \in 1..Len(result) : Logged(n) = IF n <= k THEN 1 ELSE 0
  /\ pc = "Delaying" => ~TxOutstanding
  /\ \A n \in 1..Len(successLog) : successLog[n].hash <= k + 1
  /\ \A n \in (k + 2)..Len(result) : Logged(n) = 0

\* C16 witness: the transaction of the second plan entry is being retried; the
\* first entry has its outcome in a log and its delay is over
C16_Witness ==
  /\ pc = "Submitting" /\ k = 1 /\ rPc = "wait"
  /\ Logged(1) = 1 /\ Logged(2) = 0 /\ delay = 0

\* C17 (as claimed): in mode range with min <= max, every generated amount a
\* has min <= a <= max and at most randomDecimals decimal places.
C17_RangeAmountWithinBounds ==
  (config.transferMode = "range" /\ config.minAmount <= config.maxAmount) =>
    \A j \in 1..Len(classified) :
      /\ config.minAmount <= classified[j].amount
      /\ classified[j].amount <= config.maxAmount
      /\ classified[j].amount % Pow10(FineDigits - config.randomDecimals) = 0

\* C18: in mode remain with remainAmount >= 0 the amount computed for balance
\* b is max(b - remainAmount, 0); an entry with 0 < b <= remainAmount is
\* skipped as insufficient_balance and one with b > remainAmount is planned
\* with amount b - remainAmount, which leaves exactly remainAmount behind.
C18_RemainLeavesTheRemainder ==
  (config.transferMode = "remain" /\ config.remainAmount >= 0) =>
    \A j \in 1..Len(classified) :
      LET c == classified[j]
      IN /\ c.amount = IF c.b > config.remainAmount THEN c.b - config.remainAmount ELSE 0
         /\ (0 < c.b /\ c.b <= config.remainAmount) =>
              (SkippedAs(c.index, "insufficient_balance") /\ ~InPlan(c.index))
         /\ c.b > config.remainAmount =>
              /\ Accepted(c.index, c.b - config.remainAmount)
              /\ c.index \notin Indices(skipped)
         /\ \A n \in 1..Len(result) :
              result[n].from = c.index => c.b - result[n].amount = config.remainAmount

\* C18 witness: b = 5 and remain = 3: the entry is planned with amount 2
C18_Witness ==
  /\ config.transferMode = "remain" /\ config.remainAmount = 3 * One
  /\ Len(classified) = 1 /\ classified[1].b = 5 * One
  /\ Len(result) = 1 /\ result[1].amount = 2 * One

\* C18, the other example: b = 5 and remain = 5: amount 0, skipped
C18_SkipExample ==
  /\ config.transferMode = "remain" /\ config.remainAmount = 5 * One
  /\ Len(classified) = 1 /\ classified[1].b = 5 * One /\ classified[1].amount = 0
  /\ Len(skipped) = 1 /\ skipped[1].reason = "insufficient_balance"

\* the line numbers of the plan
PlanIndices == { result[n].from : n \in 1..Len(result) }

\* C19: the lines planning has passed over are split into plan, skip list and
\* query exclusions, each line in exactly one of them, so the three sizes add
\* up to the number of lines passed; the plan and the skip list are in input
\* order without duplicates; when planning returns, the lines passed are all
\* the non-blank lines of the input.
C19_PlanningPartitionsTheInput ==
  /\ PlanIndices \cup Indices(skipped) \cup Indices(queryFailed) = 1..i
  /\ PlanIndices \cap Indices(skipped) = {}
  /\ PlanIndices \cap Indices(queryFailed) = {}
  /\ Indices(skipped) \cap Indices(queryFailed) = {}
  /\ Len(result) + Len(skipped) + Len(queryFailed) = i
  /\ \A n \in 2..Len(result) : result[n - 1].from < result[n].from
  /\ \A n \in 2..Len(skipped) : skipped[n - 1].index < skipped[n].index
  /\ PlanningFinished =>
       /\ i = Len(lines)
       /\ \A n \in 1..Len(lines) : trim(lines[n]) # <<>>

\* C19 witness: planning has returned on a file of two entries: the first is
\* planned, the second excluded by a failed query
C19_Witness ==
  /\ PlanningFinished /\ Len(lines) = 2
  /\ PlanIndices = {1} /\ Indices(queryFailed) = {2} /\ skipped = <<>>

\* the balance an address holds on chain, as returned by its balance query, in
\* fine units
OnChain(c) == c.raw * Pow10(FineDigits - config.decimals)

\* C20 (as claimed): every plan entry has a positive amount that does not
\* exceed the full-precision balance its balance query returned.
C20_AmountWithinOnChainBalance ==
  \A n \in 1..Len(result) :
    \A j \in 1..Len(classified) :
      classified[j].index = result[n].from =>
        (0 < result[n].amount /\ result[n].amount <= OnChain(classified[j]))

\* the lines the logs of the balance-query script hold for the address at
\* this position of the list
QueryRecords(n) ==
  Cardinality({ j \in 1..Len(successLog) : successLog[j].address = n })
  + Cardinality({ j \in 1..Len(failLog) : failLog[j].address = n })

\* C21 (as claimed): for every MAX_RETRIES >= 0 the balance-query script never
\* stops on a failure: every address the loop has passed has exactly one line,
\* in the success log or in the failure log, no later address has any, the
\* query of an address is invoked at most MAX_RETRIES times, and the script
\* ends only after the whole list.
C21_EveryAddressGetsOneRecord ==
  /\ pc # "Crashed"
  /\ Len(rTrace) <= rMax
  /\ \A n \in 1..Len(lines) : QueryRecords(n) = IF n <= i THEN 1 ELSE 0
  /\ \A j \in 2..Len(successLog) : successLog[j - 1].address < successLog[j].address
  /\ \A j \in 2..Len(failLog) : failLog[j - 1].address < failLog[j].address
  /\ pc = "Done" => i = Len(lines)

====
